---------------------------- MODULE Spec2Model ----------------------------
(***************************************************************************)
(* Neon Space Shooter (src/index.tsx): the game world owned by GameCanvas  *)
(* (gameRef), the per-frame handler animate, the React state machine of    *)
(* App (gameState, startGame) and the effect of GameCanvas that            *)
(* (re)initialises the world and arms the frame loop.                      *)
(*                                                                         *)
(* Units.  Horizontal coordinates are kept in 1/Scale pixel, because an    *)
(* enemy moves (1.5 + score * 0.001) pixels per frame; with Scale = 1000   *)
(* that is the integer 1500 + score.  Vertical coordinates only ever       *)
(* change by whole pixels and are kept in pixels.  A particle's life       *)
(* (1, decaying by 0.04) is kept in hundredths.                            *)
(*                                                                         *)
(* Time.  The code compares Date.now() with player.lastShot; the model     *)
(* keeps their difference (sinceShot), saturated just above the cooldown.  *)
(***************************************************************************)
EXTENDS Integers, Sequences, FiniteSets

(* ------------------------- program constants ------------------------- *)
Scale == 1000
GAME_WIDTH == 800
GAME_HEIGHT == 600
COOLDOWN == 200
ROWS == 4
COLS == 8
MAX_LIVES == 5
WAVE_BONUS == 1000

GameStates == {"START", "PLAYING", "GAMEOVER", "PAUSED"}

(* ------------------------------ entities ----------------------------- *)
\* new Player(): centred, 60px above the bottom; lastShot = 0 lies far in the
\* past of any Date.now(), so the cooldown has elapsed (sinceShot saturated).
NewPlayer ==
  [x |-> (GAME_WIDTH \div 2 - 20) * Scale, y |-> GAME_HEIGHT - 60,
   width |-> 40 * Scale, height |-> 40, speed |-> 8 * Scale,
   sinceShot |-> COOLDOWN + 1, markedForDeletion |-> FALSE]

\* new Projectile(x, y, speed, color, isPlayer)
Projectile(x, y, speed, isPlayer) ==
  [x |-> x, y |-> y, width |-> 4 * Scale, height |-> 12,
   speed |-> speed, isPlayer |-> isPlayer, markedForDeletion |-> FALSE]

\* new Enemy(x, y, type, hasPowerup); id is the enemy's place in its wave
\* (row * COLS + column), kept to tell enemies apart.
Enemy(id, x, y, type, hasPowerup) ==
  [id |-> id, x |-> x, y |-> y, width |-> 35 * Scale, height |-> 35,
   type |-> type, hasPowerup |-> hasPowerup,
   points |-> IF type = 1 THEN 50 ELSE IF type = 2 THEN 30 ELSE 10,
   markedForDeletion |-> FALSE]

\* new Powerup(x, y)
Powerup(x, y) ==
  [x |-> x, y |-> y, width |-> 20 * Scale, height |-> 20,
   markedForDeletion |-> FALSE]

\* new Particle(x, y, color): position and velocity are random and only drawn;
\* the life (1.00) decides when it is removed.
NewParticle == [life |-> 100, markedForDeletion |-> FALSE]

Particles(n) == [i \in 1..n |-> NewParticle]

(* ----------------------------- initEnemies --------------------------- *)
\* The grid with the carrier test written without r === 0: one per row.
initEnemiesCarrierPerRow(powerupIndex) ==
  LET startX == (GAME_WIDTH - COLS * 50) \div 2
  IN  [k \in 1..(ROWS * COLS) |->
        LET r == (k - 1) \div COLS
            c == (k - 1) % COLS
            type == IF r = 0 THEN 1 ELSE IF r = 1 THEN 2 ELSE 3
        IN  Enemy(k - 1, (startX + c * 50) * Scale, 50 + r * 50, type,
                  c = powerupIndex)]

\* The 4 x 8 grid, pushed row by row; powerupIndex is floor(random * cols).
initEnemies(powerupIndex) ==
  LET startX == (GAME_WIDTH - COLS * 50) \div 2
  IN  [k \in 1..(ROWS * COLS) |->
        LET r == (k - 1) \div COLS
            c == (k - 1) % COLS
            type == IF r = 0 THEN 1 ELSE IF r = 1 THEN 2 ELSE 3
        IN  Enemy(k - 1, (startX + c * 50) * Scale, 50 + r * 50, type,
                  r = 0 /\ c = powerupIndex)]

(* ----------------------------- checkCollision ------------------------ *)
\* The overlap test with <= and >=: rectangles that touch count as overlapping.
checkCollisionInclusive(rect1, rect2) ==
  /\ rect1.x <= rect2.x + rect2.width
  /\ rect1.x + rect1.width >= rect2.x
  /\ rect1.y <= rect2.y + rect2.height
  /\ rect1.y + rect1.height >= rect2.y

checkCollision(rect1, rect2) ==
  /\ rect1.x < rect2.x + rect2.width
  /\ rect1.x + rect1.width > rect2.x
  /\ rect1.y < rect2.y + rect2.height
  /\ rect1.y + rect1.height > rect2.y


Min(a, b) == IF a < b THEN a ELSE b

(* ------------------------- one frame of animate ---------------------- *)
(* A frame is computed on a record s: the world g (player, projectiles,    *)
(* enemies, particles, powerups, score, lives, level, enemyDir), the       *)
(* values the frame hands to React (hudScore, hudLives, req: the last      *)
(* setGameState call or "NONE"), hitEdge, and ev: what the frame did       *)
(* (playSound calls by type, collision events, ...).                       *)

\* What a handler did; every handler starts from this.
NoEvents(op) ==
  [op |-> op,
   shoot |-> 0, explosion |-> 0, gameover |-> 0, powerup |-> 0,
   kills |-> <<>>, hits |-> 0, rows |-> 0, picks |-> 0, spawned |-> 0,
   carrier |-> FALSE, wave |-> FALSE, zeroed |-> FALSE, req |-> "NONE",
   stale |-> FALSE, audio |-> "none", surface |-> TRUE,
   sweptEnemies |-> 0, sweptProjectiles |-> 0, sweptPowerups |-> 0,
   sweptParticles |-> 0,
   shootInput |-> FALSE, elapsed |-> 0,
   preScore |-> 0, preLives |-> 0, preLevel |-> 0, preDir |-> 0,
   preEnemies |-> 0, preShots |-> 0, preSince |-> 0]

\* audioService.playSound(type): every failure inside is caught and dropped,
\* so the call changes nothing but the sink; ev counts the calls.
playSound(s, type) ==
  CASE type = "shoot"     -> [s EXCEPT !.ev.shoot = @ + 1]
    [] type = "explosion" -> [s EXCEPT !.ev.explosion = @ + 1]
    [] type = "gameover"  -> [s EXCEPT !.ev.gameover = @ + 1]
    [] type = "powerup"   -> [s EXCEPT !.ev.powerup = @ + 1]

\* Player.update with the cooldown test written >= instead of >.
PlayerUpdateInclusive(s, input) ==
  LET p  == s.player
      x1 == IF input.left /\ p.x > 0 THEN p.x - p.speed ELSE p.x
      x2 == IF input.right /\ x1 < GAME_WIDTH * Scale - p.width
               THEN x1 + p.speed ELSE x1
      elapsed == Min(p.sinceShot + input.dt, COOLDOWN + 1)
      moved == [s EXCEPT !.player.x = x2, !.player.sinceShot = elapsed,
                         !.ev.shootInput = input.shoot, !.ev.elapsed = elapsed]
  IN  IF input.shoot /\ elapsed >= COOLDOWN
        THEN playSound(
               [moved EXCEPT
                  !.projectiles = @ \o <<Projectile(x2, p.y, -12, TRUE),
                                         Projectile(x2 + p.width, p.y, -12, TRUE)>>,
                  !.player.sinceShot = 0],
               "shoot")
        ELSE moved

\* Player.update(input, fireProjectile).  input.dt is the time since the
\* previous frame; Date.now() - lastShot is sinceShot + dt.
PlayerUpdate(s, input) ==
  LET p  == s.player
      x1 == IF input.left /\ p.x > 0 THEN p.x - p.speed ELSE p.x
      x2 == IF input.right /\ x1 < GAME_WIDTH * Scale - p.width
               THEN x1 + p.speed ELSE x1
      elapsed == Min(p.sinceShot + input.dt, COOLDOWN + 1)
      moved == [s EXCEPT !.player.x = x2, !.player.sinceShot = elapsed,
                         !.ev.shootInput = input.shoot, !.ev.elapsed = elapsed]
  IN  IF input.shoot /\ elapsed > COOLDOWN
        THEN playSound(
               [moved EXCEPT
                  !.projectiles = @ \o <<Projectile(x2, p.y, -12, TRUE),
                                         Projectile(x2 + p.width, p.y, -12, TRUE)>>,
                  !.player.sinceShot = 0],
               "shoot")
        ELSE moved

\* The enemy loop body with the row check sending the game to START.
EnemyStepToStart(s, i, fire) ==
  LET e  == s.enemies[i]
      nx == e.x + ((15 * Scale) \div 10 + (s.score * Scale) \div 1000) * s.enemyDir
      s1 == [s EXCEPT !.enemies[i].x = nx,
                      !.hitEdge = @ \/ nx <= 10 * Scale
                                    \/ nx >= (GAME_WIDTH - 40) * Scale]
      s2 == IF e.id \in fire
              THEN [s1 EXCEPT !.projectiles =
                      Append(@, Projectile(nx + 15 * Scale, e.y + 30, 5, FALSE))]
              ELSE s1
  IN  IF e.y + e.height >= s.player.y
        THEN playSound([s2 EXCEPT !.lives = 0, !.hudLives = 0,
                                  !.req = "START",
                                  !.ev.rows = @ + 1, !.ev.zeroed = TRUE],
                       "gameover")
        ELSE s2

\* The body of g.enemies.forEach (lines 417-432) for the enemy at index i;
\* fire is the set of enemies whose Math.random() draw is below the firing
\* probability in this frame.
EnemyStep(s, i, fire) ==
  LET e  == s.enemies[i]
      nx == e.x + ((15 * Scale) \div 10 + (s.score * Scale) \div 1000) * s.enemyDir
      s1 == [s EXCEPT !.enemies[i].x = nx,
                      !.hitEdge = @ \/ nx <= 10 * Scale
                                    \/ nx >= (GAME_WIDTH - 40) * Scale]
      s2 == IF e.id \in fire
              THEN [s1 EXCEPT !.projectiles =
                      Append(@, Projectile(nx + 15 * Scale, e.y + 30, 5, FALSE))]
              ELSE s1
  IN  IF e.y + e.height >= s.player.y
        THEN playSound([s2 EXCEPT !.lives = 0, !.hudLives = 0,
                                  !.req = "GAMEOVER",
                                  !.ev.rows = @ + 1, !.ev.zeroed = TRUE],
                       "gameover")
        ELSE s2

RECURSIVE EnemyLoop(_, _, _)
EnemyLoop(s, i, fire) ==
  IF i > Len(s.enemies) THEN s ELSE EnemyLoop(EnemyStep(s, i, fire), i + 1, fire)

\* The edge response that turns the wave round without stepping it down.
EdgeResponseFlipOnly(s) ==
  IF s.hitEdge THEN [s EXCEPT !.enemyDir = -@] ELSE s

\* if (hitEdge) { enemyDir *= -1; every enemy steps down 20 }
EdgeResponse(s) ==
  IF s.hitEdge
    THEN [s EXCEPT !.enemyDir = -@,
                   !.enemies = [i \in 1..Len(s.enemies) |->
                                  [s.enemies[i] EXCEPT !.y = @ + 20]]]
    ELSE s

\* Wave completion that sets the score to the bonus instead of adding it.
WaveCompletionResetsScore(s, powerupIndex) ==
  IF Len(s.enemies) = 0
    THEN [s EXCEPT !.level = @ + 1, !.score = WAVE_BONUS,
                   !.enemies = initEnemies(powerupIndex), !.ev.wave = TRUE]
    ELSE s

\* Wave completion that forgets level++.
WaveCompletionKeepsLevel(s, powerupIndex) ==
  IF Len(s.enemies) = 0
    THEN [s EXCEPT !.score = @ + WAVE_BONUS,
                   !.enemies = initEnemies(powerupIndex), !.ev.wave = TRUE]
    ELSE s

\* if (g.enemies.length === 0) { level++; score += 1000; initEnemies() }
WaveCompletion(s, powerupIndex) ==
  IF Len(s.enemies) = 0
    THEN [s EXCEPT !.level = @ + 1, !.score = @ + WAVE_BONUS,
                   !.enemies = initEnemies(powerupIndex), !.ev.wave = TRUE]
    ELSE s

\* The body of the inner g.enemies.forEach (lines 449-459): player
\* projectile i against enemy j.
HitEnemy(s, i, j) ==
  LET p == s.projectiles[i]
      e == s.enemies[j]
  IN  IF checkCollision(p, e)
        THEN playSound(
               [s EXCEPT !.enemies[j].markedForDeletion = TRUE,
                         !.projectiles[i].markedForDeletion = TRUE,
                         !.score = @ + e.points,
                         !.hudScore = s.score + e.points,
                         !.powerups = IF e.hasPowerup
                                        THEN Append(@, Powerup(e.x + 5 * Scale, e.y + 5))
                                        ELSE @,
                         !.particles = @ \o Particles(5),
                         !.ev.kills = Append(@, e.id),
                         !.ev.carrier = @ \/ e.hasPowerup,
                         !.ev.spawned = IF e.hasPowerup THEN @ + 1 ELSE @],
               "explosion")
        ELSE s

RECURSIVE HitEnemies(_, _, _)
HitEnemies(s, i, j) ==
  IF j > Len(s.enemies) THEN s ELSE HitEnemies(HitEnemy(s, i, j), i, j + 1)

\* The player hit with the game-over test written lives < 0.
HitPlayerBelowZero(s, i) ==
  IF checkCollision(s.projectiles[i], s.player)
    THEN LET s1 == playSound(
                     [s EXCEPT !.projectiles[i].markedForDeletion = TRUE,
                               !.lives = @ - 1, !.hudLives = s.lives - 1,
                               !.particles = @ \o Particles(10),
                               !.ev.hits = @ + 1,
                               !.ev.zeroed = @ \/ s.lives - 1 <= 0],
                     "explosion")
         IN  IF s1.lives < 0
               THEN playSound([s1 EXCEPT !.req = "GAMEOVER"], "gameover")
               ELSE s1
    ELSE s

\* Lines 461-471: enemy projectile i against the player.
HitPlayer(s, i) ==
  IF checkCollision(s.projectiles[i], s.player)
    THEN LET s1 == playSound(
                     [s EXCEPT !.projectiles[i].markedForDeletion = TRUE,
                               !.lives = @ - 1, !.hudLives = s.lives - 1,
                               !.particles = @ \o Particles(10),
                               !.ev.hits = @ + 1,
                               !.ev.zeroed = @ \/ s.lives - 1 <= 0],
                     "explosion")
         IN  IF s1.lives <= 0
               THEN playSound([s1 EXCEPT !.req = "GAMEOVER"], "gameover")
               ELSE s1
    ELSE s

\* Projectile.update without the bounds test.
ProjectileUpdateUnbounded(p) ==
  [p EXCEPT !.y = p.y + p.speed]

\* Projectile.update()
ProjectileUpdate(p) ==
  LET y == p.y + p.speed
  IN  [p EXCEPT !.y = y,
                !.markedForDeletion = @ \/ y < -20 \/ y > GAME_HEIGHT + 20]

\* The body of g.projectiles.forEach (lines 445-473) for projectile i.
ProjectileStep(s, i) ==
  LET s1 == [s EXCEPT !.projectiles[i] = ProjectileUpdate(@)]
  IN  IF s1.projectiles[i].isPlayer
        THEN \* the inner forEach changes nothing when no enemy overlaps
             IF \E j \in 1..Len(s1.enemies) :
                   checkCollision(s1.projectiles[i], s1.enemies[j])
               THEN HitEnemies(s1, i, 1)
               ELSE s1
        ELSE HitPlayer(s1, i)

RECURSIVE ProjectileLoop(_, _)
ProjectileLoop(s, i) ==
  IF i > Len(s.projectiles) THEN s ELSE ProjectileLoop(ProjectileStep(s, i), i + 1)

\* Powerup.update()
PowerupUpdate(p) ==
  [p EXCEPT !.y = @ + 3, !.markedForDeletion = @ \/ p.y + 3 > GAME_HEIGHT]

\* The pickup without the cap on lives.
PowerupStepUncapped(s, i) ==
  LET s1 == [s EXCEPT !.powerups[i] = PowerupUpdate(@)]
  IN  IF checkCollision(s1.powerups[i], s1.player)
        THEN playSound(
               [s1 EXCEPT !.powerups[i].markedForDeletion = TRUE,
                          !.lives = @ + 1,
                          !.hudLives = s1.lives + 1,
                          !.particles = @ \o Particles(8),
                          !.ev.picks = @ + 1],
               "powerup")
        ELSE s1

\* The body of g.powerups.forEach (lines 475-485) for powerup i.
PowerupStep(s, i) ==
  LET s1 == [s EXCEPT !.powerups[i] = PowerupUpdate(@)]
  IN  IF checkCollision(s1.powerups[i], s1.player)
        THEN playSound(
               [s1 EXCEPT !.powerups[i].markedForDeletion = TRUE,
                          !.lives = Min(@ + 1, MAX_LIVES),
                          !.hudLives = Min(s1.lives + 1, MAX_LIVES),
                          !.particles = @ \o Particles(8),
                          !.ev.picks = @ + 1],
               "powerup")
        ELSE s1

RECURSIVE PowerupLoop(_, _)
PowerupLoop(s, i) ==
  IF i > Len(s.powerups) THEN s ELSE PowerupLoop(PowerupStep(s, i), i + 1)

Unmarked(o) == ~o.markedForDeletion

\* Particle.update()
ParticleUpdate(p) ==
  [p EXCEPT !.life = @ - 4, !.markedForDeletion = @ \/ p.life - 4 <= 0]

\* The sweep without the powerups filter.
SweepKeepsPowerups(s) ==
  [s EXCEPT !.enemies = SelectSeq(@, Unmarked),
            !.projectiles = SelectSeq(@, Unmarked),
            !.particles = SelectSeq([i \in 1..Len(s.particles) |->
                                       ParticleUpdate(s.particles[i])],
                                    Unmarked)]

\* Lines 487-491: the filters, with the particles updated before theirs;
\* ev counts what each filter removes.
Sweep(s) ==
  LET enemies == SelectSeq(s.enemies, Unmarked)
      projectiles == SelectSeq(s.projectiles, Unmarked)
      powerups == SelectSeq(s.powerups, Unmarked)
      particles == SelectSeq([i \in 1..Len(s.particles) |->
                                ParticleUpdate(s.particles[i])],
                             Unmarked)
  IN  [s EXCEPT !.enemies = enemies,
                !.projectiles = projectiles,
                !.powerups = powerups,
                !.particles = particles,
                !.ev.sweptEnemies = Len(s.enemies) - Len(enemies),
                !.ev.sweptProjectiles = Len(s.projectiles) - Len(projectiles),
                !.ev.sweptPowerups = Len(s.powerups) - Len(powerups),
                !.ev.sweptParticles = Len(s.particles) - Len(particles)]

\* The PLAYING branch of animate (lines 408-492) on world g: input is the
\* snapshot of inputRef with the frame's dt, fire the enemies that fire,
\* powerupIndex the draw of initEnemies should a wave be built.
Frame(g, hud, input, fire, powerupIndex) ==
  LET s0 == [player |-> g.player, projectiles |-> g.projectiles,
             enemies |-> g.enemies, particles |-> g.particles,
             powerups |-> g.powerups, score |-> g.score, lives |-> g.lives,
             level |-> g.level, enemyDir |-> g.enemyDir,
             hudScore |-> hud.score, hudLives |-> hud.lives,
             req |-> "NONE", hitEdge |-> FALSE,
             ev |-> [NoEvents("animate") EXCEPT
                       !.preScore = g.score, !.preLives = g.lives,
                       !.preLevel = g.level, !.preDir = g.enemyDir,
                       !.preEnemies = Len(g.enemies),
                       !.preShots = Len(g.projectiles),
                       !.preSince = g.player.sinceShot]]
      s1 == PlayerUpdate(s0, input)
      s2 == EnemyLoop(s1, 1, fire)
      s3 == EdgeResponse(s2)
      s4 == WaveCompletion(s3, powerupIndex)
      s5 == ProjectileLoop(s4, 1)
      s6 == PowerupLoop(s5, 1)
  IN  Sweep(s6)

\* gameRef.current as the frame leaves it.
WorldOf(s) ==
  [player |-> s.player, projectiles |-> s.projectiles, enemies |-> s.enemies,
   particles |-> s.particles, powerups |-> s.powerups, score |-> s.score,
   lives |-> s.lives, level |-> s.level, enemyDir |-> s.enemyDir]

\* useRef({...}) of GameCanvas: the world before the first initGame.
InitialWorld ==
  [player |-> NewPlayer, projectiles |-> <<>>, enemies |-> <<>>,
   particles |-> <<>>, powerups |-> <<>>, score |-> 0, lives |-> 3,
   level |-> 1, enemyDir |-> 1]

\* initGame(): a new player, empty collections, the counters reset, a wave.
initGame(powerupIndex) ==
  [player |-> NewPlayer, projectiles |-> <<>>, particles |-> <<>>,
   powerups |-> <<>>, score |-> 0, lives |-> 3, level |-> 1, enemyDir |-> 1,
   enemies |-> initEnemies(powerupIndex)]


(* ------------------------------ the host ------------------------------ *)
(* The host (the player's keys, the frame clock, the random draws) is      *)
(* modelled by a finite family of schedules, one drawn at each initGame.   *)
(* A schedule fixes which keys are held (shoot until frame shootUntil),    *)
(* how long a frame lasts (dt, in ms) and for how many frames the loop is  *)
(* followed; the enemies' random firing draws are free at the frames of    *)
(* its menu (pairs <<frame, enemy id>>), and nobody fires at other frames; *)
(* pidx are the draws offered to initEnemies.  frame counts the frames     *)
(* animate has run since initGame.                                         *)

IdleFrames == 4150
VolleyFrames == 112
SteadyFrames == 546
RapidFrames == 422
SnipeFrames == 215
RunFrames == 55
StrafeFrames == 280
MaxStale == 1
\* The drawing surface (the canvas and its 2d context) may be missing at a
\* frame callback only in the first SurfaceLossFrames frames of a run.
SurfaceLossFrames == 2
\* Enter is pressed during play only in the first EnterFrames frames of a run.
EnterFrames == 2

Schedules ==
  { \* nothing held: the wave walks down to the player's row (frame 4146)
    [name |-> "idle", left |-> FALSE, right |-> FALSE, shootUntil |-> 0,
     dt |-> 100, frames |-> IdleFrames, pidx |-> {3},
     menu |-> {<<5, 0>>, <<4137, 23>>}],
    \* nothing held: shots that reach the player at frames 100 and 105
    [name |-> "volley", left |-> FALSE, right |-> FALSE, shootUntil |-> 0,
     dt |-> 100, frames |-> VolleyFrames, pidx |-> {3},
     menu |-> {<<11, 3>>, <<21, 11>>, <<31, 19>>, <<41, 26>>, <<16, 3>>}],
    \* shoot held at 10 frames per second: a shot every third frame
    [name |-> "steady", left |-> FALSE, right |-> FALSE, shootUntil |-> SteadyFrames,
     dt |-> 100, frames |-> SteadyFrames, pidx |-> {4}, menu |-> {}],
    \* shoot held with frames longer than the cooldown: a shot every frame
    [name |-> "rapid", left |-> FALSE, right |-> FALSE, shootUntil |-> RapidFrames,
     dt |-> COOLDOWN + 1, frames |-> RapidFrames, pidx |-> {7}, menu |-> {}],
    \* shoot held until the power-up carrier falls (frame 47), then released;
    \* shots that reach the player with the power-up (frame 202)
    [name |-> "snipe", left |-> FALSE, right |-> FALSE, shootUntil |-> 47,
     dt |-> 100, frames |-> SnipeFrames, pidx |-> {2},
     menu |-> {<<113, 0>>, <<137, 16>>, <<147, 24>>}],
    \* a direction held
    [name |-> "left", left |-> TRUE, right |-> FALSE, shootUntil |-> 0,
     dt |-> 100, frames |-> RunFrames, pidx |-> {3}, menu |-> {}],
    [name |-> "right", left |-> FALSE, right |-> TRUE, shootUntil |-> 0,
     dt |-> 100, frames |-> RunFrames, pidx |-> {3}, menu |-> {}],
    \* right and shoot held: the player fires from the right wall, where no
    \* wave is built, until the first wave is cleared (frame 276)
    [name |-> "strafe", left |-> FALSE, right |-> TRUE, shootUntil |-> StrafeFrames,
     dt |-> 100, frames |-> StrafeFrames, pidx |-> {3}, menu |-> {}] }

\* The firing draws offered at frame f of schedule p: sets of enemy ids.
FireChoices(p, f) == SUBSET {m[2] : m \in {n \in p.menu : n[1] = f}}

\* inputRef.current at frame f of schedule p, with the frame's duration.
InputAt(p, f) ==
  [left |-> p.left, right |-> p.right, shoot |-> f <= p.shootUntil, dt |-> p.dt]

VARIABLES
  gameState,     \* App's gameState as last rendered: what every closure sees
  pendingState,  \* the value of the last setGameState call
  rafArmed,      \* requestRef holds a scheduled animate callback
  startPc,       \* where startGame is: "idle" or "awaiting" audio resume
  g,             \* gameRef.current
  hud,           \* App's score and lives (setScore, setLives)
  ev,            \* what the last handler did
  plan,          \* the host's schedule for this run
  frame,         \* frames run since initGame
  stale,         \* frames run since a state change was requested
  probe          \* a pair of rectangles handed to checkCollision, with the results

vars == <<gameState, pendingState, rafArmed, startPc, g, hud, ev, plan, frame, stale,
          probe>>

\* No rectangles under test.
NoProbe == [done |-> FALSE, a |-> NewPlayer, b |-> NewPlayer, ab |-> TRUE, ba |-> TRUE]

IdleSchedule == CHOOSE p \in Schedules : p.name = "idle"

Init ==
  /\ gameState = "START"
  /\ pendingState = "START"
  /\ rafArmed = FALSE
  /\ startPc = "idle"
  /\ g = InitialWorld
  /\ hud = [score |-> 0, lives |-> 3]
  /\ ev = NoEvents("init")
  /\ plan = IdleSchedule
  /\ frame = 0
  /\ stale = 0
  /\ probe = NoProbe

\* startGame (lines 550-554), called by the JUGAR / REINTENTAR buttons and by
\* Enter while the rendered state is not PLAYING (one call per rendered
\* screen).  audio is what the audio context does: "running", "suspended"
\* (resume() must be awaited) or "throws" (the context cannot be created:
\* resume() throws and the async function ends rejected, before
\* setGameState).
StartGame(audio) ==
  /\ gameState # "PLAYING"
  /\ pendingState = gameState
  /\ startPc = "idle"
  /\ ev' = [NoEvents("startGame") EXCEPT !.audio = audio]
  /\ CASE audio = "running"   -> pendingState' = "PLAYING" /\ startPc' = "idle"
       [] audio = "suspended" -> pendingState' = pendingState /\ startPc' = "awaiting"
       [] audio = "throws"    -> pendingState' = pendingState /\ startPc' = "idle"
  /\ UNCHANGED <<gameState, rafArmed, g, hud, plan, frame, stale, probe>>

\* The awaited ctx.resume() settles: resolved, startGame goes on to
\* setGameState(PLAYING); rejected, startGame ends there.
ResumeSettled(ok) ==
  /\ startPc = "awaiting"
  /\ startPc' = "idle"
  /\ pendingState' = IF ok THEN "PLAYING" ELSE pendingState
  /\ ev' = [NoEvents("startGame") EXCEPT !.audio = IF ok THEN "resumed" ELSE "rejected"]
  /\ UNCHANGED <<gameState, rafArmed, g, hud, plan, frame, stale, probe>>

\* The effect without its cleanup: the scheduled frame is never cancelled.
CommitKeepsLoop ==
  /\ pendingState # gameState
  /\ gameState' = pendingState
  /\ stale' = 0
  /\ IF pendingState = "PLAYING"
       THEN /\ rafArmed' = TRUE
            /\ IF g.lives <= 0 \/ Len(g.enemies) = 0
                 THEN \E p \in Schedules : \E k \in p.pidx :
                        /\ g' = initGame(k)
                        /\ hud' = [score |-> 0, lives |-> 3]
                        /\ plan' = p
                        /\ frame' = 0
                        /\ ev' = NoEvents("initGame")
                 ELSE /\ UNCHANGED <<g, hud, plan, frame>>
                      /\ ev' = NoEvents("commit")
       ELSE /\ rafArmed' = rafArmed
            /\ ev' = NoEvents("commit")
            /\ UNCHANGED <<g, hud, plan, frame>>
  /\ UNCHANGED <<pendingState, startPc, probe>>

\* React renders the pending gameState and runs GameCanvas's effect (lines
\* 496-506): the cleanup cancels the scheduled frame; entering PLAYING calls
\* initGame if lives <= 0 or there is no enemy, and schedules animate.
Commit ==
  /\ pendingState # gameState
  /\ gameState' = pendingState
  /\ stale' = 0
  /\ IF pendingState = "PLAYING"
       THEN /\ rafArmed' = TRUE
            /\ IF g.lives <= 0 \/ Len(g.enemies) = 0
                 THEN \E p \in Schedules : \E k \in p.pidx :
                        /\ g' = initGame(k)
                        /\ hud' = [score |-> 0, lives |-> 3]
                        /\ plan' = p
                        /\ frame' = 0
                        /\ ev' = NoEvents("initGame")
                 ELSE /\ UNCHANGED <<g, hud, plan, frame>>
                      /\ ev' = NoEvents("commit")
       ELSE /\ rafArmed' = FALSE
            /\ ev' = NoEvents("commit")
            /\ UNCHANGED <<g, hud, plan, frame>>
  /\ UNCHANGED <<pendingState, startPc, probe>>

\* animate (lines 400-494), the callback scheduled while PLAYING was rendered;
\* it may run once more after it requested GAMEOVER, before React has
\* rendered the request and cancelled it.
Animate ==
  /\ rafArmed
  /\ frame < plan.frames
  /\ pendingState = gameState \/ stale < MaxStale
  /\ \E fire \in FireChoices(plan, frame + 1), k \in plan.pidx :
       \E s \in {Frame(g, hud, InputAt(plan, frame + 1), fire, k)} :
           /\ g' = WorldOf(s)
           /\ hud' = [score |-> s.hudScore, lives |-> s.hudLives]
           /\ pendingState' = IF s.req = "NONE" THEN pendingState ELSE s.req
           /\ ev' = [s.ev EXCEPT !.stale = pendingState # gameState,
                                  !.req = s.req]
  /\ frame' = frame + 1
  /\ stale' = IF pendingState # gameState THEN stale + 1 ELSE stale
  /\ UNCHANGED <<gameState, rafArmed, startPc, plan, probe>>

\* animate called while canvasRef.current or its 2d context is missing: it
\* returns at line 403, before the simulation and before the
\* requestAnimationFrame of line 493, so no frame is scheduled any more.
AnimateNoSurface ==
  /\ rafArmed
  /\ frame < SurfaceLossFrames
  /\ pendingState = gameState
  /\ rafArmed' = FALSE
  /\ ev' = [NoEvents("animateNoSurface") EXCEPT !.surface = FALSE]
  /\ UNCHANGED <<gameState, pendingState, startPc, g, hud, plan, frame, stale, probe>>

\* handleKeyDown for Enter while PLAYING is rendered (line 538): startGame
\* is not called.
EnterIgnored ==
  /\ gameState = "PLAYING"
  /\ frame < EnterFrames
  /\ ev.op # "handleKeyDown"
  /\ ev' = NoEvents("handleKeyDown")
  /\ UNCHANGED <<gameState, pendingState, rafArmed, startPc, g, hud, plan, frame, stale,
                 probe>>

Next ==
  \/ \E audio \in {"running", "suspended", "throws"} : StartGame(audio)
  \/ \E ok \in BOOLEAN : ResumeSettled(ok)
  \/ Commit
  \/ Animate
  \/ AnimateNoSurface
  \/ EnterIgnored

Spec == Init /\ [][Next]_vars

(* ------------------------ checkCollision on its own -------------------- *)
(* checkCollision applied, both ways round, to every pair of rectangles    *)
(* with integer corners in 0..MaxCoord and sides in 1..MaxSide.            *)
MaxCoord == 3
MaxSide == 2

Rects ==
  [x : 0..MaxCoord, y : 0..MaxCoord, width : 1..MaxSide, height : 1..MaxSide]

CollisionInit ==
  /\ gameState = "START"
  /\ pendingState = "START"
  /\ rafArmed = FALSE
  /\ startPc = "idle"
  /\ g = InitialWorld
  /\ hud = [score |-> 0, lives |-> 3]
  /\ ev = NoEvents("init")
  /\ plan = IdleSchedule
  /\ frame = 0
  /\ stale = 0
  /\ \E a \in Rects, b \in Rects :
       probe = [done |-> FALSE, a |-> a, b |-> b, ab |-> FALSE, ba |-> FALSE]

CheckCollision ==
  /\ ~probe.done
  /\ probe' = [probe EXCEPT !.done = TRUE,
                            !.ab = checkCollision(probe.a, probe.b),
                            !.ba = checkCollision(probe.b, probe.a)]
  /\ UNCHANGED <<gameState, pendingState, rafArmed, startPc, g, hud, ev, plan,
                 frame, stale>>

CollisionNext == CheckCollision

SpecCollision == CollisionInit /\ [][CollisionNext]_vars

(* ----------------------------- properties ------------------------------ *)

\* Sum of the points of the enemies named in kills (ids of one wave: the
\* row, hence the type and the points, is id \div COLS).
RECURSIVE KillPoints(_)
KillPoints(kills) ==
  IF kills = <<>> THEN 0
  ELSE LET r == Head(kills) \div COLS
       IN  (IF r = 0 THEN 50 ELSE IF r = 1 THEN 30 ELSE 10) + KillPoints(Tail(kills))

\* Player projectiles that were fired in the frame just run: they have moved
\* once from the player's y.
NewShots ==
  Cardinality({i \in 1..Len(g.projectiles) :
                 g.projectiles[i].isPlayer /\ g.projectiles[i].y = g.player.y - 12})

\* C1: in every reachable state lives is between 0 and 5.
C1_LivesInRange == 0 <= g.lives /\ g.lives <= MAX_LIVES

\* C2: a GAMEOVER -> PLAYING restart leaves the world as initGame builds it:
\* score 0, lives 3, level 1, enemyDir +1, no projectile, particle or
\* powerup, a new player, a new wave of ROWS * COLS enemies.
C2_RestartReinitializes ==
  [][(gameState = "GAMEOVER" /\ gameState' = "PLAYING")
       => \E k \in 0..(COLS - 1) : g' = initGame(k)]_vars

\* C3: a frame that requests GAMEOVER while PLAYING is displayed emits the
\* 'gameover' sound exactly once.
C3_GameoverOnce ==
  (ev.op = "animate" /\ ~ev.stale /\ ev.req = "GAMEOVER") => ev.gameover = 1

\* C4: a frame requests GAMEOVER if and only if it brought lives to 0 or
\* below, by a projectile hit on the player or by an enemy reaching the
\* player's row; a frame that ends with lives <= 0 after starting above 0
\* has requested it, and a frame with neither a hit nor a row reach has not.
C4_GameoverIffZeroed ==
  ev.op = "animate" =>
    /\ (ev.req = "GAMEOVER") <=> ev.zeroed
    /\ ev.zeroed => (ev.hits > 0 \/ ev.rows > 0)
    /\ (ev.rows > 0 \/ (ev.hits > 0 /\ ev.preLives - ev.hits <= 0)) => ev.zeroed
    /\ (g.lives <= 0 /\ ev.preLives > 0) => pendingState = "GAMEOVER"
    /\ ev.req = "GAMEOVER" => pendingState = "GAMEOVER"
    /\ (ev.req = "NONE" /\ ~ev.stale) => pendingState = "PLAYING"

\* C4's case: a frame in which a projectile hit and a row reach both happen
\* and GAMEOVER is requested.
C4_Witness ==
  /\ ev.op = "animate" /\ ~ev.stale
  /\ ev.hits > 0 /\ ev.rows > 0
  /\ ev.req = "GAMEOVER" /\ pendingState = "GAMEOVER"

\* C5: no frame lowers the score.
C5_ScoreMonotone == [][ev'.op = "animate" => g'.score >= g.score]_vars

\* C5's case: a frame with kills that also builds a wave, the score above
\* what it was.
C5_Witness ==
  /\ ev.op = "animate" /\ ev.wave /\ Len(ev.kills) > 0
  /\ g.score > ev.preScore /\ ev.preScore > 0

\* C6: no element of enemies, projectiles, powerups or particles is marked
\* for deletion in any state between frames; what would have been marked
\* (a projectile out of bounds, a powerup below the field, a particle whose
\* life is used up) is not there either.
C6_SweepInvariant ==
  /\ \A i \in 1..Len(g.enemies) : ~g.enemies[i].markedForDeletion
  /\ \A i \in 1..Len(g.projectiles) :
       /\ ~g.projectiles[i].markedForDeletion
       /\ g.projectiles[i].y >= -20 /\ g.projectiles[i].y <= GAME_HEIGHT + 20
  /\ \A i \in 1..Len(g.powerups) :
       ~g.powerups[i].markedForDeletion /\ g.powerups[i].y <= GAME_HEIGHT
  /\ \A i \in 1..Len(g.particles) :
       ~g.particles[i].markedForDeletion /\ g.particles[i].life > 0

\* C6's case: a frame whose sweep removed enemies, projectiles, a powerup
\* and particles.
C6_Witness ==
  /\ ev.op = "animate"
  /\ ev.sweptEnemies > 0 /\ ev.sweptProjectiles > 0
  /\ ev.sweptPowerups > 0 /\ ev.sweptParticles > 0

\* C7 as stated: a frame that starts with no enemy ends with enemies, the
\* level one higher and the score exactly 1000 higher.
C7_WaveClearExact ==
  [][(ev'.op = "animate" /\ Len(g.enemies) = 0)
       => /\ Len(g'.enemies) > 0
          /\ g'.level = g.level + 1
          /\ g'.score = g.score + WAVE_BONUS]_vars

\* C7 amended: a frame that starts with no enemy ends with enemies, the
\* level one higher, and the score higher by 1000 plus the points of the
\* hits its projectiles in flight score on the new wave in the same frame.
C7_WaveClear ==
  [][(ev'.op = "animate" /\ Len(g.enemies) = 0)
       => /\ Len(g'.enemies) > 0
          /\ g'.level = g.level + 1
          /\ ev'.wave
          /\ g'.score = g.score + WAVE_BONUS + KillPoints(ev'.kills)]_vars

\* C7's case: a frame that built a wave and hit enemies of it.
C7_Witness ==
  /\ ev.op = "animate" /\ ev.wave /\ ev.preEnemies = 0
  /\ Len(ev.kills) > 0 /\ g.level = ev.preLevel + 1
  /\ g.score > ev.preScore + WAVE_BONUS

\* C8 as stated: with shoot held, a frame fires (two player projectiles,
\* one 'shoot' sound, the last shot now) when at least 200 ms have passed
\* since the last shot, and fires nothing otherwise.
C8_CooldownInclusive ==
  (ev.op = "animate" /\ ev.shootInput) =>
    IF ev.elapsed >= COOLDOWN
      THEN NewShots = 2 /\ ev.shoot = 1 /\ g.player.sinceShot = 0
      ELSE NewShots = 0 /\ ev.shoot = 0 /\ g.player.sinceShot = ev.elapsed

\* C8 amended: with shoot held, a frame fires (two player projectiles, one
\* 'shoot' sound, the last shot now) when more than 200 ms have passed since
\* the last shot, and fires nothing and keeps the last shot otherwise.
C8_CooldownStrict ==
  (ev.op = "animate" /\ ev.shootInput) =>
    /\ ev.elapsed = Min(ev.preSince + plan.dt, COOLDOWN + 1)
    /\ IF ev.elapsed > COOLDOWN
         THEN NewShots = 2 /\ ev.shoot = 1 /\ g.player.sinceShot = 0
         ELSE NewShots = 0 /\ ev.shoot = 0 /\ g.player.sinceShot = ev.elapsed

\* C8's case: shoot held and exactly 200 ms since the last shot: nothing is
\* fired.
C8_Witness ==
  /\ ev.op = "animate" /\ ev.shootInput /\ ev.elapsed = COOLDOWN
  /\ NewShots = 0 /\ Len(g.projectiles) > 0

\* C9: a frame that destroys the power-up carrier adds exactly one Powerup.
C9_OnePowerup == (ev.op = "animate" /\ ev.carrier) => ev.spawned = 1

\* C10: a start or restart trigger whose audio fails (no context, or the
\* resume rejected) still requests PLAYING.
C10_AudioNeverGates ==
  (ev.op = "startGame" /\ ev.audio \in {"throws", "rejected"})
    => pendingState = "PLAYING"

\* C11: a frame callback that finds no drawing surface leaves the world
\* (score, lives, level, enemyDir, every collection) as it was and leaves
\* the frame loop scheduled.
C11_NoSurfaceKeepsLoop ==
  [][ev'.op = "animateNoSurface" => (g' = g /\ hud' = hud /\ rafArmed')]_vars

\* C12: the state machine starts in START; the rendered state only ever
\* changes START -> PLAYING, PLAYING -> GAMEOVER or GAMEOVER -> PLAYING;
\* nothing ever requests PAUSED or START; PLAYING is requested only by
\* startGame and GAMEOVER only by a frame; and Enter while PLAYING changes
\* nothing.
C12_Transitions ==
  /\ gameState = "START"
  /\ [][/\ gameState' # gameState =>
            <<gameState, gameState'>> \in {<<"START", "PLAYING">>,
                                          <<"PLAYING", "GAMEOVER">>,
                                          <<"GAMEOVER", "PLAYING">>}
        /\ pendingState' \in {"START", "PLAYING", "GAMEOVER"}
        /\ pendingState' = "START" => gameState' = "START"
        /\ pendingState' # pendingState =>
             \/ pendingState' = "PLAYING" /\ ev'.op = "startGame"
             \/ pendingState' = "GAMEOVER" /\ ev'.op = "animate"
        /\ ev'.op = "startGame" => gameState # "PLAYING"
        /\ ev'.op = "handleKeyDown" =>
             UNCHANGED <<gameState, pendingState, rafArmed, g, hud>>]_vars

\* C12's case: a restart that resumes play from the GAMEOVER screen.
C12_Witness ==
  /\ gameState = "PLAYING" /\ ev.op = "commit" /\ rafArmed
  /\ pendingState = "PLAYING"

\* C13: while START or GAMEOVER is rendered no frame is scheduled and
\* nothing changes the world or the displayed score and lives, until the
\* effect of a (re)start builds a new game.
C13_SteppedOnlyWhilePlaying ==
  [][/\ gameState' # "PLAYING" => ~rafArmed'
     /\ gameState # "PLAYING" =>
          \/ g' = g /\ hud' = hud
          \/ gameState' = "PLAYING" /\ ev'.op = "initGame"]_vars

\* C13's case: the GAMEOVER screen after a game lost, a handler having run
\* there (a start trigger whose audio failed), the world as the last frame
\* left it.
C13_Witness ==
  /\ gameState = "GAMEOVER" /\ ~rafArmed
  /\ ev.op = "startGame" /\ ev.audio = "throws"
  /\ g.lives <= 0 /\ Len(g.enemies) > 0 /\ frame > 0

\* Some enemy of world w is at a margin (x <= 10 or x >= GAME_WIDTH - 40)
\* once moved by (1.5 + score * 0.001) * enemyDir.
AtMargin(w) ==
  \E i \in 1..Len(w.enemies) :
     LET nx == w.enemies[i].x + (1500 + w.score) * w.enemyDir
     IN  nx <= 10 * Scale \/ nx >= (GAME_WIDTH - 40) * Scale

\* C14: a frame in which some enemy is at a margin after its move turns
\* enemyDir round exactly once and steps every enemy down by exactly 20; a
\* frame in which none is leaves enemyDir and every enemy's y as they were;
\* enemyDir is always +1 or -1.
C14_EdgeBounce ==
  [][ev'.op = "animate" =>
       /\ g'.enemyDir = IF AtMargin(g) THEN -g.enemyDir ELSE g.enemyDir
       /\ g'.enemyDir \in {1, -1}
       /\ ev'.wave => ~AtMargin(g)
       /\ ~ev'.wave =>
            \A j \in 1..Len(g'.enemies) :
               \E i \in 1..Len(g.enemies) :
                  /\ g.enemies[i].id = g'.enemies[j].id
                  /\ g'.enemies[j].y =
                       g.enemies[i].y + IF AtMargin(g) THEN 20 ELSE 0]_vars

\* C14's case: a frame in which the four enemies of a column reach a margin
\* together: the direction has turned once and the whole wave is there.
C14_Witness ==
  /\ ev.op = "animate" /\ g.enemyDir = -ev.preDir
  /\ Len(g.enemies) = ROWS * COLS
  /\ Cardinality({i \in 1..Len(g.enemies) :
                    g.enemies[i].x >= (GAME_WIDTH - 40) * Scale}) = ROWS

\* C15: a frame in which powerups overlap the player raises lives by one
\* per powerup, capped at 5, from what the row check and the projectile hits
\* of the same frame left (so a pickup never lowers lives); no powerup that
\* overlaps the player stays in the collection; one 'powerup' sound per
\* pickup; score and level change only by the frame's kills and wave bonus.
C15_Pickup ==
  (ev.op = "animate" /\ ev.picks > 0) =>
    LET before == (IF ev.rows > 0 THEN 0 ELSE ev.preLives) - ev.hits
    IN  /\ g.lives = Min(before + ev.picks, MAX_LIVES)
        /\ g.lives >= before
        /\ hud.lives = g.lives
        /\ ev.powerup = ev.picks
        /\ ev.sweptPowerups >= ev.picks
        /\ \A i \in 1..Len(g.powerups) : ~checkCollision(g.powerups[i], g.player)
        /\ g.score = ev.preScore + KillPoints(ev.kills)
                        + IF ev.wave THEN WAVE_BONUS ELSE 0
        /\ g.level = ev.preLevel + IF ev.wave THEN 1 ELSE 0

\* C15's case: four powerups picked up in one frame with 3 lives: the cap.
C15_Witness ==
  /\ ev.op = "animate" /\ ev.picks = 4 /\ ev.preLives = 3
  /\ g.lives = MAX_LIVES /\ g.score = ev.preScore

\* Rectangles r1 and r2 touch along an edge: one ends where the other
\* starts, on x or on y.
Touching(r1, r2) ==
  \/ r1.x + r1.width = r2.x \/ r2.x + r2.width = r1.x
  \/ r1.y + r1.height = r2.y \/ r2.y + r2.height = r1.y

\* C16: checkCollision(a, b) = checkCollision(b, a) for every pair of
\* rectangles, and rectangles that only touch along an edge do not overlap;
\* rectangles that share an interior point do.
C16_CollisionSymmetric ==
  probe.done =>
    /\ probe.ab = probe.ba
    /\ Touching(probe.a, probe.b) => ~probe.ab
    /\ (\E px \in 0..(2 * (MaxCoord + MaxSide)), py \in 0..(2 * (MaxCoord + MaxSide)) :
          /\ 2 * probe.a.x < px /\ px < 2 * (probe.a.x + probe.a.width)
          /\ 2 * probe.b.x < px /\ px < 2 * (probe.b.x + probe.b.width)
          /\ 2 * probe.a.y < py /\ py < 2 * (probe.a.y + probe.a.height)
          /\ 2 * probe.b.y < py /\ py < 2 * (probe.b.y + probe.b.height))
       <=> probe.ab

\* C16's case: two different rectangles side by side, sharing a stretch of
\* an edge, tested: no overlap either way.
C16_Witness ==
  /\ probe.done /\ probe.a # probe.b
  /\ probe.a.x + probe.a.width = probe.b.x
  /\ probe.a.y < probe.b.y + probe.b.height /\ probe.b.y < probe.a.y + probe.a.height
  /\ ~probe.ab /\ ~probe.ba

\* C17: the player's x stays between 0 and GAME_WIDTH minus its width.
C17_PlayerInViewport ==
  0 <= g.player.x /\ g.player.x <= (GAME_WIDTH - 40) * Scale

\* C18: a frame that builds a new wave leaves enemyDir at +1; the score is
\* not reset (it is at least the 1000 bonus above what it was).
C18_WaveResetsDirection ==
  (ev.op = "animate" /\ ev.wave) =>
    (g.enemyDir = 1 /\ g.score >= ev.preScore + WAVE_BONUS)

\* C19: a frame that starts with some enemy's bottom edge at or below the
\* player's y requests GAMEOVER and ends with lives = 0.
C19_RowReachEndsGame ==
  [][(/\ ev'.op = "animate"
      /\ \E i \in 1..Len(g.enemies) :
            g.enemies[i].y + g.enemies[i].height >= g.player.y)
       => (pendingState' = "GAMEOVER" /\ g'.lives = 0)]_vars

\* Wave w is the full grid: ROWS * COLS enemies, kind 1 in row 0, kind 2 in
\* row 1, kind 3 below, and exactly one carrier, of kind 1.
WaveOK(w) ==
  /\ Len(w) = ROWS * COLS
  /\ \A r \in 0..(ROWS - 1) :
       Cardinality({i \in 1..Len(w) : w[i].y = 50 + r * 50}) = COLS
  /\ \A i \in 1..Len(w) :
       /\ w[i].type = (IF w[i].y = 50 THEN 1 ELSE IF w[i].y = 100 THEN 2 ELSE 3)
       /\ w[i].points = (IF w[i].type = 1 THEN 50 ELSE IF w[i].type = 2 THEN 30 ELSE 10)
  /\ Cardinality({i \in 1..Len(w) : w[i].hasPowerup}) = 1
  /\ \A i \in 1..Len(w) : w[i].hasPowerup => w[i].type = 1

\* C20: every wave initEnemies builds is the full grid with one carrier of
\* kind 1, and in every state at most one enemy carries a power-up, and
\* that one is of kind 1 and worth 50 points.
C20_WaveComposition ==
  /\ \A k \in 0..(COLS - 1) : WaveOK(initEnemies(k))
  /\ ev.op = "initGame" => WaveOK(g.enemies)
  /\ Cardinality({i \in 1..Len(g.enemies) : g.enemies[i].hasPowerup}) <= 1
  /\ \A i \in 1..Len(g.enemies) :
       g.enemies[i].hasPowerup => (g.enemies[i].type = 1 /\ g.enemies[i].points = 50)

\* C20's case: a wave built by a frame during play (not by initGame), its
\* carrier among the enemies.
C20_Witness ==
  /\ ev.op = "animate" /\ ev.wave /\ g.level > 1
  /\ Cardinality({i \in 1..Len(g.enemies) : g.enemies[i].hasPowerup}) = 1

\* The number of further frames projectile p can stay in the collection:
\* the moves left before it is past its vertical bound (-20 going up at 12
\* per frame, GAME_HEIGHT + 20 going down at 5 per frame).
FramesLeft(p) ==
  IF p.isPlayer THEN (p.y + 20) \div 12 ELSE (GAME_HEIGHT + 20 - p.y) \div 5

\* C21: at the end of every frame each projectile has -20 <= y <=
\* GAME_HEIGHT + 20, and each one is either of this frame (fired by the
\* player or by an enemy and moved once) or one of the frame before with
\* one frame less left to stay; so a projectile is gone, by a collision or
\* by leaving the bounds, within a bounded number of frames.
C21_ProjectilesLeave ==
  [][ev'.op = "animate" =>
       \A j \in 1..Len(g'.projectiles) :
          LET q == g'.projectiles[j]
          IN  /\ -20 <= q.y /\ q.y <= GAME_HEIGHT + 20
              /\ FramesLeft(q) >= 0
              /\ FramesLeft(q) <= (GAME_HEIGHT + 20 + 20) \div 5
              /\ q.speed = IF q.isPlayer THEN -12 ELSE 5
              /\ \/ q.isPlayer /\ ev'.shoot = 1 /\ q.y = g'.player.y - 12
                 \/ ~q.isPlayer /\ \E i \in 1..Len(g.enemies) :
                                      q.y = g.enemies[i].y + 30 + 5
                 \/ \E i \in 1..Len(g.projectiles) :
                      /\ g.projectiles[i].x = q.x
                      /\ g.projectiles[i].isPlayer = q.isPlayer
                      /\ q.y = g.projectiles[i].y + q.speed
                      /\ FramesLeft(q) = FramesLeft(g.projectiles[i]) - 1]_vars

\* C21's case: a frame whose sweep removed a projectile that hit nothing:
\* it left the bounds (no kill, no hit on the player in that frame), other
\* projectiles still in flight.
C21_Witness ==
  /\ ev.op = "animate" /\ ev.sweptProjectiles > 0
  /\ Len(ev.kills) = 0 /\ ev.hits = 0
  /\ Len(g.projectiles) > 0

\* C22: whenever GAMEOVER is rendered, lives <= 0.
C22_GameoverMeansNoLives == gameState = "GAMEOVER" => g.lives <= 0

\* C23: after every frame and after every initGame the displayed score and
\* lives equal the world's.
C23_HudMirrorsWorld ==
  ev.op \in {"animate", "initGame"} =>
    (hud.score = g.score /\ hud.lives = g.lives)

\* Sum of the points of the enemies whose ids are in set S (the row, hence
\* the points, is id \div COLS).
RECURSIVE SetPoints(_)
SetPoints(S) ==
  IF S = {} THEN 0
  ELSE LET id == CHOOSE x \in S : TRUE
           r  == id \div COLS
       IN  (IF r = 0 THEN 50 ELSE IF r = 1 THEN 30 ELSE 10) + SetPoints(S \ {id})

\* C24: the score gained in a frame is 1000 if a wave was built plus the
\* points of the distinct enemies destroyed in it: each enemy counts once.
C24_ScoredOnce ==
  ev.op = "animate" =>
    g.score = ev.preScore + (IF ev.wave THEN WAVE_BONUS ELSE 0)
                + SetPoints({ev.kills[i] : i \in 1..Len(ev.kills)})

=============================================================================
